---------------------------- MODULE Spec2Model ----------------------------
(***************************************************************************)
(* doq: a tracker of recurring tasks.  The model covers the recurrence     *)
(* engine of src/lib.rs (next_due_date, days_until_due,                    *)
(* repeat_from_string, VersionedTask::upversioned) and the command         *)
(* dispatcher of src/main.rs (add, edit, remove, did) acting on the        *)
(* schedule file.                                                          *)
(*                                                                         *)
(* A chrono::NaiveDate is modelled by its day number (days since           *)
(* 0000-12-31 of the proleptic Gregorian calendar, chrono's                *)
(* num_days_from_ce); a data::Date, which holds the text "YYYY-MM-DD", is  *)
(* modelled by the triple <<year, month, day>> that the text spells.       *)
(***************************************************************************)
EXTENDS Integers, Sequences, FiniteSets, TLC

VARIABLES
    file,       \* the schedule file: the persisted sequence of tasks
    schedule,   \* main's local `schedule` when the last command ended
    matches,    \* the command line of the last command
    exit,       \* how the last command ended: "ok", "fail", "panic", "hang"
    origin,     \* history: the due date each task name was added with
    call,       \* harness of the library functions: the function and its arguments
    ret         \* harness: the value returned, or Pending

vars == <<file, schedule, matches, exit, origin, call, ret>>

----------------------------------------------------------------------------
(* Option and the ways a call can end without a value. *)

NoneV == [tag |-> "None"]

Some(x) == [tag |-> "Some", v |-> x]

Panic == [tag |-> "Panic"]

Diverge == [tag |-> "Diverge"]

Pending == [tag |-> "Pending"]

----------------------------------------------------------------------------
(* chrono's calendar: proleptic Gregorian, years MIN_YEAR..MAX_YEAR. *)

MAX_YEAR == 262143

IsLeap(y) == (y % 4 = 0 /\ y % 100 # 0) \/ y % 400 = 0

DaysInMonth(y, m) ==
    IF m = 2 THEN (IF IsLeap(y) THEN 29 ELSE 28)
    ELSE IF m \in {4, 6, 9, 11} THEN 30 ELSE 31

ValidYmd(y, m, d) ==
    /\ y \in 1..MAX_YEAR
    /\ m \in 1..12
    /\ d \in 1..DaysInMonth(y, m)

\* The days of a common year before each month.
CumDays == <<0, 31, 59, 90, 120, 151, 181, 212, 243, 273, 304, 334>>

DaysBeforeMonth(y, m) == CumDays[m] + (IF m > 2 /\ IsLeap(y) THEN 1 ELSE 0)

DaysBeforeYear(y) ==
    365 * (y - 1) + ((y - 1) \div 4) - ((y - 1) \div 100) + ((y - 1) \div 400)

\* NaiveDate::from_ymd on a valid triple: the day number.
from_ymd(y, m, d) == DaysBeforeYear(y) + DaysBeforeMonth(y, m) + d

Min(a, b) == IF a < b THEN a ELSE b

\* Datelike::year of a day number.
year(n) ==
    LET z    == n - 1
        n400 == z \div 146097
        r    == z % 146097
        n100 == Min(r \div 36524, 3)
        r2   == r - n100 * 36524
        n4   == r2 \div 1461
        r3   == r2 % 1461
        n1   == Min(r3 \div 365, 3)
    IN  400 * n400 + 100 * n100 + 4 * n4 + n1 + 1

\* The month in which day o of year y falls.
MonthOfOrdinal(y, o) ==
    CHOOSE m \in 1..12 :
        /\ DaysBeforeMonth(y, m) < o
        /\ o <= DaysBeforeMonth(y, m) + DaysInMonth(y, m)

\* The (year, month, day) of a day number.
Ymd(n) ==
    LET y == year(n)
        o == n - DaysBeforeYear(y)
        m == MonthOfOrdinal(y, o)
    IN  <<y, m, o - DaysBeforeMonth(y, m)>>

\* Datelike::month, from 1.
month(n) == Ymd(n)[2]

\* Datelike::month0, from 0.
month0(n) == month(n) - 1

\* Datelike::day, from 1.
day(n) == Ymd(n)[3]

MAX_DATE == from_ymd(MAX_YEAR, 12, 31)

\* Datelike::with_year: same month and day in year y, None when there is no such date.
with_year(n, y) ==
    LET t == Ymd(n)
    IN  IF ValidYmd(y, t[2], t[3]) THEN Some(from_ymd(y, t[2], t[3])) ELSE NoneV

\* Datelike::with_month0: same year and day in month m0 + 1, None when there is no such date.
with_month0(n, m0) ==
    LET t == Ymd(n)
    IN  IF ValidYmd(t[1], m0 + 1, t[3]) THEN Some(from_ymd(t[1], m0 + 1, t[3])) ELSE NoneV

\* NaiveDate + Duration::days(i): panics when the sum leaves chrono's range.
add_days(n, i) == IF n + i > MAX_DATE THEN Panic ELSE Some(n + i)

----------------------------------------------------------------------------
(* data::Date: the text of a date. *)

\* From<NaiveDate> for Date: format!("{}", date).
DateFrom(n) == Ymd(n)

\* Date::as_naive: NaiveDate::from_str(..).ok().
as_naive(t) ==
    IF ValidYmd(t[1], t[2], t[3]) THEN Some(from_ymd(t[1], t[2], t[3])) ELSE NoneV

\* Calendar order on (year, month, day).
Before(a, b) ==
    \/ a[1] < b[1]
    \/ a[1] = b[1] /\ a[2] < b[2]
    \/ a[1] = b[1] /\ a[2] = b[2] /\ a[3] < b[3]

----------------------------------------------------------------------------
(* data::Repeat. *)

Never == [tag |-> "Never", n |-> 0]

Days(i) == [tag |-> "Days", n |-> i]

Months(i) == [tag |-> "Months", n |-> i]

Years(i) == [tag |-> "Years", n |-> i]

----------------------------------------------------------------------------
(* next_due_date. *)

\* One pass of the loop body for a repeating rule: the advanced date, or Panic
\* when expect() meets None.
Advance(due_date, repeat) ==
    CASE repeat.tag = "Days" -> add_days(due_date, repeat.n)
      [] repeat.tag = "Months" ->
            LET months == month0(due_date) + repeat.n
                y      == with_year(due_date, year(due_date) + (months \div 12))
                ym     == IF y.tag = "Some" THEN with_month0(y.v, months % 12) ELSE NoneV
            IN  IF ym.tag = "Some" THEN ym ELSE Panic
      [] repeat.tag = "Years" ->
            LET y == with_year(due_date, year(due_date) + repeat.n)
            IN  IF y.tag = "Some" THEN y ELSE Panic

\* The state of a call: the loop variable due_date and the advances made.
Frame(due_date) == [tag |-> "Running", v |-> due_date, advances |-> 0]

\* NddPass with a loop body that advances two intervals at a time.
NddPassTwice(s, date_completed, repeat) ==
    IF s.tag # "Running" THEN s
    ELSE IF ~(s.v <= date_completed) THEN [s EXCEPT !.tag = "Some"]
    ELSE IF repeat.tag = "Never" THEN [s EXCEPT !.tag = "None"]
    ELSE LET a == Advance(s.v, repeat)
             b == IF a.tag = "Panic" THEN a ELSE Advance(a.v, repeat)
         IN  IF b.tag = "Panic" THEN [s EXCEPT !.tag = "Panic"]
             ELSE IF b.v = s.v THEN [s EXCEPT !.tag = "Diverge"]
             ELSE [s EXCEPT !.v = b.v, !.advances = @ + 2]

\* One evaluation of the while condition and, when it holds, of the loop body.
\* A pass that leaves due_date as it was repeats for ever (Diverge): the
\* loop's state is due_date alone.
NddPass(s, date_completed, repeat) ==
    IF s.tag # "Running" THEN s
    ELSE IF ~(s.v <= date_completed) THEN [s EXCEPT !.tag = "Some"]
    ELSE IF repeat.tag = "Never" THEN [s EXCEPT !.tag = "None"]
    ELSE LET a == Advance(s.v, repeat)
         IN  IF a.tag = "Panic" THEN [s EXCEPT !.tag = "Panic"]
             ELSE IF a.v = s.v THEN [s EXCEPT !.tag = "Diverge"]
             ELSE [s EXCEPT !.v = a.v, !.advances = @ + 1]

\* The most passes of the loop the model follows.
MaxPasses == 2048

\* The while loop: passes until the call has ended, at most n of them.  The
\* passes are composed by halves to keep the evaluation shallow.
RECURSIVE NddLoop(_, _, _, _)
NddLoop(s, date_completed, repeat, n) ==
    IF n = 0 \/ s.tag # "Running" THEN s
    ELSE IF n = 1 THEN NddPass(s, date_completed, repeat)
    ELSE NddLoop(NddLoop(s, date_completed, repeat, n \div 2),
                 date_completed, repeat, n - (n \div 2))

\* The result: Some (v: the date), None, Panic or Diverge, with the advances made.
next_due_date(previous_date_due, date_completed, repeat) ==
    NddLoop(Frame(previous_date_due), date_completed, repeat, MaxPasses)

----------------------------------------------------------------------------
(* repeat_from_string.  A &str is a sequence of characters, each a string   *)
(* of one character; Width gives a character's length in UTF-8 bytes.       *)

Digits == {"0", "1", "2", "3", "4", "5", "6", "7", "8", "9"}

DigitValue(c) ==
    CASE c = "0" -> 0 [] c = "1" -> 1 [] c = "2" -> 2 [] c = "3" -> 3 [] c = "4" -> 4
      [] c = "5" -> 5 [] c = "6" -> 6 [] c = "7" -> 7 [] c = "8" -> 8 [] c = "9" -> 9

\* The bytes of a character: ASCII but for the two-byte e-acute.
Width(c) == IF c = "é" THEN 2 ELSE 1

\* str::len: the length in bytes.
RECURSIVE ByteLen(_)
ByteLen(string) ==
    IF string = <<>> THEN 0 ELSE Width(Head(string)) + ByteLen(Tail(string))

Ok(x) == [tag |-> "Ok", v |-> x]

Err(e) == [tag |-> "Err", v |-> e]

PARSE_ERROR == "Expected a number"

UNIT_ERROR == "Expected a suffix (d, m, y) for days, months, or years"

\* The value of a sequence of digits.
RECURSIVE DecimalValue(_)
DecimalValue(ds) ==
    IF ds = <<>> THEN 0
    ELSE 10 * DecimalValue(SubSeq(ds, 1, Len(ds) - 1)) + DigitValue(ds[Len(ds)])

\* str::parse::<u32>: an optional "+", then one digit or more.  (The strings
\* drawn are too short to exceed u32::MAX.)
ParseU32(count) ==
    LET ds == IF count # <<>> /\ Head(count) = "+" THEN Tail(count) ELSE count
    IN  IF ds # <<>> /\ \A k \in 1..Len(ds) : ds[k] \in Digits
        THEN Ok(DecimalValue(ds))
        ELSE Err(PARSE_ERROR)

\* str::split_at(mid): the two parts, or Panic when mid is past the end or
\* inside a character.
split_at(string, mid) ==
    IF mid < 0 \/ mid > ByteLen(string) THEN Panic
    ELSE IF \E k \in 0..Len(string) : ByteLen(SubSeq(string, 1, k)) = mid
         THEN LET k == CHOOSE k \in 0..Len(string) : ByteLen(SubSeq(string, 1, k)) = mid
              IN  Some(<<SubSeq(string, 1, k), SubSeq(string, k + 1, Len(string))>>)
         ELSE Panic

NeverText == <<"n", "e", "v", "e", "r">>

\* string.len() - 1 on the empty string is 0 - 1 in usize: the subtraction
\* panics where overflow is checked, and where it wraps split_at is asked for
\* index usize::MAX, past the end; -1 stands for both.
repeat_from_string(string) ==
    IF string = NeverText THEN Ok(Never)
    ELSE LET parts == split_at(string, ByteLen(string) - 1)
         IN  IF parts.tag = "Panic" THEN Panic
             ELSE LET count == ParseU32(parts.v[1])
                      unit  == parts.v[2]
                  IN  IF count.tag = "Err" THEN count
                      ELSE CASE unit = <<"d">> -> Ok(Days(count.v))
                             [] unit = <<"m">> -> Ok(Months(count.v))
                             [] unit = <<"y">> -> Ok(Years(count.v))
                             [] OTHER -> Err(UNIT_ERROR)

----------------------------------------------------------------------------
(* days_until_due. *)

\* days_until_due with the operands of the difference exchanged.
days_until_due_reversed(due_date, today) == today - due_date

\* due_date.signed_duration_since(today).num_days()
days_until_due(due_date, today) == due_date - today

----------------------------------------------------------------------------
(* data::Task and VersionedTask::upversioned. *)

Task(name, date_completed, date_due, repeat, at_least) ==
    [name |-> name, date_completed |-> date_completed, date_due |-> date_due,
     repeat |-> repeat, at_least |-> at_least]

Current(t) == [version |-> "Current", task |-> t]

Version010(name, frequency_days, last_completed) ==
    [version |-> "Version010", name |-> name, frequency_days |-> frequency_days,
     last_completed |-> last_completed]

\* today: what Utc::today().naive_utc() gives when the record is upgraded.
\* The result: Some(task), None, or the Panic or Diverge of next_due_date.
upversioned(self, today) ==
    IF self.version = "Current" THEN Some(self.task)
    ELSE LET repeat == Days(self.frequency_days)
         IN  IF self.last_completed.tag = "Some"
             THEN LET completed == as_naive(self.last_completed.v)
                      date_due  == IF completed.tag = "Some"
                                   THEN next_due_date(completed.v, completed.v, repeat)
                                   ELSE NoneV
                  IN  IF date_due.tag = "None" THEN NoneV
                      ELSE IF date_due.tag # "Some" THEN [tag |-> date_due.tag]
                      ELSE Some(Task(self.name, Some(DateFrom(completed.v)),
                                     DateFrom(date_due.v), repeat, FALSE))
             ELSE Some(Task(self.name, NoneV, DateFrom(today), repeat, FALSE))

----------------------------------------------------------------------------
(* The command dispatcher of main.  A command reads the schedule file into *)
(* the local `schedule`, works on it, and may write it back.  Each XxxRun   *)
(* gives how the command ends: its exit ("ok"; "fail": fail() called;       *)
(* "panic"; "hang"), the local schedule then, and whether write_file ran.   *)

Outcome(e, sched, w) == [exit |-> e, schedule |-> sched, write |-> w]

\* iter().position(|t| t.name == name) and iter_mut().find(..): the first task of that name.
HasName(tasks, name) == \E k \in 1..Len(tasks) : tasks[k].name = name

Position(tasks, name) ==
    CHOOSE k \in 1..Len(tasks) :
        /\ tasks[k].name = name
        /\ \A j \in 1..(k - 1) : tasks[j].name # name

\* Vec::swap_remove: the last element takes the place of the one removed.
swap_remove(tasks, index) ==
    IF index = Len(tasks) THEN SubSeq(tasks, 1, Len(tasks) - 1)
    ELSE [SubSeq(tasks, 1, Len(tasks) - 1) EXCEPT ![index] = tasks[Len(tasks)]]

\* parse_date: the date of the text, or fail() (None here).
parse_date(date) == as_naive(date)

\* parse_date_or_today.
parse_date_or_today(date, today) ==
    IF date.tag = "Some" THEN parse_date(date.v) ELSE Some(today)

\* The "add" subcommand.  Its --repeat value is parsed in place as
\* repeat_from_string parses it, a parse error ending in fail().
AddRun(tasks, name, value, at_least, on, today) ==
    LET repeat   == repeat_from_string(value)
        date_due == parse_date_or_today(on, today)
    IN  IF repeat.tag = "Panic" THEN Outcome("panic", tasks, FALSE)
        ELSE IF repeat.tag = "Err" THEN Outcome("fail", tasks, FALSE)
        ELSE IF repeat.v = Never /\ at_least THEN Outcome("fail", tasks, FALSE)
        ELSE IF HasName(tasks, name) THEN Outcome("fail", tasks, FALSE)
        ELSE IF date_due.tag # "Some" THEN Outcome("fail", tasks, FALSE)
        ELSE Outcome("ok",
                     Append(tasks, Task(name, NoneV, DateFrom(date_due.v), repeat.v, at_least)),
                     TRUE)

\* The "edit" subcommand on the task close_enough matched (task_name); each
\* option is NoneV when absent.  No write_file follows.
EditRun(tasks, task_name, rename, on, repeat, at_least) ==
    LET k  == Position(tasks, task_name)
        t1 == IF rename.tag = "Some" THEN [tasks EXCEPT ![k].name = rename.v] ELSE tasks
        d  == IF on.tag = "Some" THEN parse_date(on.v) ELSE NoneV
        t2 == IF on.tag = "Some" /\ d.tag = "Some"
              THEN [t1 EXCEPT ![k].date_due = DateFrom(d.v)] ELSE t1
        r  == IF repeat.tag = "Some" THEN repeat_from_string(repeat.v) ELSE NoneV
        t3 == IF repeat.tag = "Some" /\ r.tag = "Ok"
              THEN [t2 EXCEPT ![k].repeat = r.v] ELSE t2
        t4 == IF at_least.tag = "Some" THEN [t3 EXCEPT ![k].at_least = at_least.v] ELSE t3
    IN  IF on.tag = "Some" /\ d.tag # "Some" THEN Outcome("fail", t1, FALSE)
        ELSE IF repeat.tag = "Some" /\ r.tag = "Panic" THEN Outcome("panic", t2, FALSE)
        ELSE IF repeat.tag = "Some" /\ r.tag = "Err" THEN Outcome("fail", t2, FALSE)
        ELSE Outcome("ok", t4, FALSE)

\* The "remove" subcommand.
RemoveRun(tasks, name) ==
    IF ~HasName(tasks, name) THEN Outcome("fail", tasks, FALSE)
    ELSE Outcome("ok", swap_remove(tasks, Position(tasks, name)), TRUE)

\* RepeatStart with the at_least flag ignored: always counted from the completion.
RepeatStartFromCompletion(task, date_completed, previous_date_due) == date_completed

\* The date the next interval is counted from (the task's at_least flag).
RepeatStart(task, date_completed, previous_date_due) ==
    IF task.at_least THEN date_completed ELSE previous_date_due

\* The "did" subcommand on the task close_enough matched (task_name), the
\* completion date parsed (date); proceed: -y given, or "y" / "yes" answered.
DidRun(tasks, task_name, date, proceed) ==
    LET k    == Position(tasks, task_name)
        task == tasks[k]
        previous_date_due == as_naive(task.date_due)
        next == next_due_date(RepeatStart(task, date, previous_date_due.v), date, task.repeat)
    IN  IF ~proceed THEN Outcome("ok", tasks, FALSE)
        ELSE IF previous_date_due.tag # "Some" THEN Outcome("fail", tasks, FALSE)
        ELSE IF next.tag = "Panic" THEN Outcome("panic", tasks, FALSE)
        ELSE IF next.tag = "Some"
             THEN Outcome("ok",
                          [tasks EXCEPT ![k].date_completed = Some(DateFrom(date)),
                                        ![k].date_due = DateFrom(next.v)],
                          TRUE)
        ELSE IF next.tag = "None"
             THEN Outcome("ok", swap_remove(tasks, Position(tasks, task_name)), TRUE)
        ELSE Outcome("hang", tasks, FALSE)

----------------------------------------------------------------------------
(* Bounds of the inputs. *)

\* The first year of the dates drawn (the leap year of the tests).
TestYear == 2016

\* The dates drawn lie in the years TestYear .. TestYear + YearSpan.
YearSpan == 1

\* Repeat counts 0 .. MaxCount are drawn, and the larger counts of the tests.
MaxCount == 3

InputYears == TestYear..(TestYear + YearSpan)

Counts == (0..MaxCount) \cup {5, 7, 12, 14, 365}

Repeats ==
    {Never} \cup {Days(n) : n \in Counts} \cup {Months(n) : n \in Counts}
            \cup {Years(n) : n \in Counts}

\* Dates as the tests write them, (year, month, day): month starts and month
\* ends of months of every length.
NddDates ==
    {t \in InputYears \X {1, 2, 5, 8, 12} \X {1, 27, 29, 30, 31} :
        ValidYmd(t[1], t[2], t[3])}

\* The task names typed on the command line and held by legacy records.
Names == {"a", "b"}

Idle == [fn |-> "idle"]

\* The variables of the command dispatcher, at rest while a library function is exercised.
MainIdle ==
    /\ file = <<>>
    /\ schedule = <<>>
    /\ matches = [cmd |-> "none"]
    /\ exit = "ok"
    /\ origin = [n \in Names |-> NoneV]

----------------------------------------------------------------------------
(* The program: commands run one after another on the schedule file, from  *)
(* the empty schedule ensure_file_exists writes.                            *)

\* The date tasks are added for (typed with --on, or the day of the command).
AddDates == {<<TestYear + 1, 1, 31>>}

\* The dates tasks are marked done on: before, on and after that date.
DidDates == {<<TestYear + 1, 1, 30>>, <<TestYear + 1, 1, 31>>, <<TestYear + 1, 2, 3>>}

\* The options typed with "edit": --on, --repeat, --at-least, each NoneV when absent.
EditOptions ==
    {<<NoneV, NoneV, NoneV>>,
     <<Some(<<TestYear + 1, 2, 2>>), Some(NeverText), Some(TRUE)>>,
     <<Some(<<TestYear + 1, 2, 30>>), Some(<<"x">>), Some(FALSE)>>,
     <<NoneV, Some(<<>>), NoneV>>}

\* The --repeat values typed.
RepeatArgs == {NeverText, <<"2", "d">>, <<"1", "m">>, <<>>, <<"x">>}

\* The most tasks the schedule file holds.
MaxTasks == 2

Init ==
    /\ file = <<>>
    /\ schedule = <<>>
    /\ matches = [cmd |-> "none"]
    /\ exit = "ok"
    /\ origin = [n \in Names |-> NoneV]
    /\ call = Idle
    /\ ret = Pending

\* A command ended as `out`: the file is written when write_file ran.
Finish(out) ==
    /\ schedule' = out.schedule
    /\ file' = IF out.write THEN out.schedule ELSE file
    /\ exit' = out.exit
    /\ UNCHANGED <<call, ret>>

Add ==
    /\ call = Idle
    /\ Len(file) < MaxTasks
    /\ \E name \in Names, value \in RepeatArgs, at_least \in BOOLEAN,
          on \in {NoneV} \cup {Some(d) : d \in AddDates} :
       \E today \in (IF on.tag = "Some" THEN {on.v} ELSE AddDates) :
          LET out == AddRun(file, name, value, at_least, on,
                            from_ymd(today[1], today[2], today[3]))
          IN  /\ Finish(out)
              /\ matches' = [cmd |-> "add", name |-> name]
              /\ origin' = IF out.write
                           THEN [origin EXCEPT ![name] = Some(out.schedule[Len(out.schedule)].date_due)]
                           ELSE origin

\* close_enough matches the name typed to one of the tasks, or to none.
EditNoMatch ==
    /\ call = Idle
    /\ Finish(Outcome("fail", file, FALSE))
    /\ matches' = [cmd |-> "edit", name |-> "?"]
    /\ UNCHANGED origin

Edit ==
    /\ call = Idle
    /\ \E k \in 1..Len(file), rename \in {NoneV} \cup {Some(n) : n \in Names},
          opts \in EditOptions :
          /\ Finish(EditRun(file, file[k].name, rename, opts[1], opts[2], opts[3]))
          /\ matches' = [cmd |-> "edit", name |-> file[k].name]
    /\ UNCHANGED origin

Remove ==
    /\ call = Idle
    /\ \E name \in Names :
          /\ Finish(RemoveRun(file, name))
          /\ matches' = [cmd |-> "remove", name |-> name]
    /\ UNCHANGED origin

DidNoMatch ==
    /\ call = Idle
    /\ Finish(Outcome("fail", file, FALSE))
    /\ \E date \in DidDates :
          matches' = [cmd |-> "did", name |-> "?", proceed |-> FALSE, date |-> date]
    /\ UNCHANGED origin

Did ==
    /\ call = Idle
    /\ \E k \in 1..Len(file), date \in DidDates, proceed \in BOOLEAN :
          /\ Finish(DidRun(file, file[k].name, from_ymd(date[1], date[2], date[3]), proceed))
          /\ matches' = [cmd |-> "did", name |-> file[k].name, proceed |-> proceed, date |-> date]
    /\ UNCHANGED origin

Next == Add \/ EditNoMatch \/ Edit \/ Remove \/ DidNoMatch \/ Did

Spec == Init /\ [][Next]_vars

UniqueNames(tasks) ==
    \A i, j \in 1..Len(tasks) : i # j => tasks[i].name # tasks[j].name

\* C4: after a confirmed did on a task whose rule is Never, whatever the
\* completion date is relative to the due date, the task is no longer in the
\* schedule.
C4_NeverTaskRetired ==
    [][\A k \in 1..Len(file) :
          (/\ matches'.cmd = "did"
           /\ matches'.name = file[k].name
           /\ matches'.proceed
           /\ exit' = "ok"
           /\ file[k].repeat = Never)
              => ~HasName(file', file[k].name)]_vars

\* What holds of C4 when the completion is not before the due date.
NeverTaskRetiredWhenDue ==
    [][\A k \in 1..Len(file) :
          (/\ matches'.cmd = "did"
           /\ matches'.name = file[k].name
           /\ matches'.proceed
           /\ exit' = "ok"
           /\ file[k].repeat = Never
           /\ ~Before(matches'.date, file[k].date_due))
              => ~HasName(file', file[k].name)]_vars

\* The days from the date a task was added for to its due date.
DaysFromOrigin(t) == as_naive(t.date_due).v - as_naive(origin[t.name].v).v

\* C6: a task with at_least = false and rule Days(n) has, after any sequence
\* of confirmed dids (early, on time or late), a due date that is its original
\* due date plus a whole number (>= 0) of intervals of n days.
C6_NoDrift ==
    \A k \in 1..Len(file) :
        (~file[k].at_least /\ file[k].repeat.tag = "Days")
            => /\ DaysFromOrigin(file[k]) >= 0
               /\ IF file[k].repeat.n = 0 THEN DaysFromOrigin(file[k]) = 0
                  ELSE DaysFromOrigin(file[k]) % file[k].repeat.n = 0

\* A fixed-cadence task was just marked done more than one interval late and
\* its due date moved two intervals on.
C6_Witness ==
    /\ matches.cmd = "did"
    /\ matches.proceed
    /\ exit = "ok"
    /\ \E k \in 1..Len(file) :
          /\ file[k].name = matches.name
          /\ ~file[k].at_least
          /\ file[k].repeat.tag = "Days"
          /\ file[k].date_completed = Some(matches.date)
          /\ as_naive(matches.date).v > as_naive(origin[matches.name].v).v + file[k].repeat.n
          /\ DaysFromOrigin(file[k]) = 2 * file[k].repeat.n

\* C7: in every state reached by add, edit (--rename too), did and remove
\* from the empty schedule, no two tasks of the schedule have the same name.
C7_UniqueNames == UniqueNames(file) /\ UniqueNames(schedule)

\* What holds of C7: the names in the schedule file are unique (edit writes nothing).
FileNamesUnique == UniqueNames(file)

----------------------------------------------------------------------------
(* next_due_date exercised as tests::test_next_due_date does: dates given as *)
(* (year, month, day), the result kept as returned.                          *)

NddInit ==
    /\ MainIdle
    /\ call \in [fn : {"next_due_date"}, due : NddDates, completed : NddDates,
                 repeat : Repeats]
    /\ ret = Pending

NddCall ==
    /\ call.fn = "next_due_date"
    /\ ret = Pending
    /\ ret' = next_due_date(from_ymd(call.due[1], call.due[2], call.due[3]),
                            from_ymd(call.completed[1], call.completed[2], call.completed[3]),
                            call.repeat)
    /\ UNCHANGED <<file, schedule, matches, exit, origin, call>>

NddNext == NddCall

SpecNdd == NddInit /\ [][NddNext]_vars

\* The call of the harness has ended.
NddEnded == call.fn = "next_due_date" /\ ret # Pending

NddDue == from_ymd(call.due[1], call.due[2], call.due[3])

NddCompleted == from_ymd(call.completed[1], call.completed[2], call.completed[3])

\* A repeating rule with a positive count, as the data model has them.
Repeating(r) == r.tag # "Never" /\ r.n >= 1

\* Every call ends within the passes followed, or is known to diverge.
NddFollowed == NddEnded => ret.tag \in {"Some", "None", "Panic", "Diverge"}

\* C1: next_due_date(anchor, completion, Never) returns None for every anchor
\* and completion date, whether the completion is before, on or after the anchor.
C1_NeverReturnsNone ==
    (NddEnded /\ call.repeat = Never) => ret.tag = "None"

\* C2: for every date d and every repeating rule r, next_due_date(d, d, r)
\* returns a date strictly after d.
C2_StrictlyAfter ==
    (NddEnded /\ call.due = call.completed /\ Repeating(call.repeat))
        => (ret.tag = "Some" /\ ret.v > NddDue)

\* The months of a (year, month, day) counted from year 0.
MonthIndex(t) == 12 * t[1] + (t[2] - 1)

\* Date b is date a advanced by k intervals of rule r.
OnLattice(a, b, r, k) ==
    LET ta == Ymd(a)
        tb == Ymd(b)
    IN  CASE r.tag = "Days" -> b = a + k * r.n
          [] r.tag = "Months" -> MonthIndex(tb) = MonthIndex(ta) + k * r.n /\ tb[3] = ta[3]
          [] r.tag = "Years" -> tb[1] = ta[1] + k * r.n /\ tb[2] = ta[2] /\ tb[3] = ta[3]

\* The date one interval of rule r before date b, None when the calendar has none.
Retreat(b, r) ==
    LET tb == Ymd(b)
        mi == MonthIndex(tb) - r.n
    IN  CASE r.tag = "Days" -> Some(b - r.n)
          [] r.tag = "Months" -> as_naive(<<mi \div 12, (mi % 12) + 1, tb[3]>>)
          [] r.tag = "Years" -> as_naive(<<tb[1] - r.n, tb[2], tb[3]>>)

\* The returned date is the first point of the lattice after the completion.
FirstAfter ==
    /\ OnLattice(NddDue, ret.v, call.repeat, ret.advances)
    /\ ret.v > NddCompleted
    /\ \/ ret.advances = 0 /\ ret.v = NddDue
       \/ /\ ret.advances > 0
          /\ LET p == Retreat(ret.v, call.repeat)
             IN  /\ p.tag = "Some"
                 /\ p.v <= NddCompleted
                 /\ OnLattice(NddDue, p.v, call.repeat, ret.advances - 1)

\* C3: for a repeating rule, next_due_date returns the anchor advanced by k
\* intervals for the smallest k >= 0 that puts it strictly after the
\* completion: the anchor itself when the completion is before it, else a
\* date whose predecessor on the lattice is not after the completion.
C3_FirstLatticePointAfter ==
    (NddEnded /\ Repeating(call.repeat)) => (ret.tag = "Some" /\ FirstAfter)

\* What holds of C2 and C3 on the calls that do return a date.
NddWhenSome ==
    (NddEnded /\ Repeating(call.repeat) /\ ret.tag = "Some") => FirstAfter

\* C5: next_due_date never panics on a valid anchor, a valid completion and a
\* rule with a positive count (or Never): it returns a value, also when a
\* month or year advance lands on a day the target month does not have.
C5_NeverPanics ==
    (NddEnded /\ (Repeating(call.repeat) \/ call.repeat = Never))
        => ret.tag \in {"Some", "None"}

\* The whole intervals of rule r (count >= 1) from anchor a to completion c,
\* none when the completion is before the anchor.
Intervals(a, c, r) ==
    LET ta == Ymd(a)
        tc == Ymd(c)
    IN  IF c < a THEN 0
        ELSE CASE r.tag = "Days" -> (c - a) \div r.n
               [] r.tag = "Months" -> (MonthIndex(tc) - MonthIndex(ta)) \div r.n
               [] r.tag = "Years" -> (tc[1] - ta[1]) \div r.n

\* C11: next_due_date terminates for every anchor, completion and rule the
\* type admits, the count 0 included (repeat_from_string("0d") and a legacy
\* frequency_days of 0 produce it), after at most one advance more than the
\* intervals between the anchor and the completion.
C11_TerminatesBounded ==
    NddEnded =>
        /\ ret.tag # "Diverge"
        /\ Repeating(call.repeat) =>
              ret.advances <= Intervals(NddDue, NddCompleted, call.repeat) + 1

\* What holds of C11: with a count of 1 or more the call ends within the bound.
NddBoundedWhenPositive ==
    (NddEnded /\ Repeating(call.repeat)) =>
        /\ ret.tag \in {"Some", "Panic"}
        /\ ret.advances <= Intervals(NddDue, NddCompleted, call.repeat) + 1

\* The calls that do not end are those of a count of 0 with the completion
\* on or after the anchor.
NddZeroDiverges ==
    NddEnded =>
        (ret.tag = "Diverge" <=>
            (call.repeat.tag # "Never" /\ call.repeat.n = 0 /\ NddDue <= NddCompleted))

\* The date n months after (year, month, day) t: the month index advanced by
\* n with the carry into the year, the day of the month kept.
MonthsTarget(t, n) ==
    LET months == (t[2] - 1) + n
    IN  <<t[1] + (months \div 12), (months % 12) + 1, t[3]>>

\* A call that makes one advance under a Months rule: completed on the anchor.
OneMonthsAdvance ==
    /\ NddEnded
    /\ call.repeat.tag = "Months"
    /\ call.repeat.n >= 1
    /\ call.due = call.completed

\* C13: one Months(n) advance from (y, m, d) yields the date of month index
\* (m0 + n) mod 12, year y + (m0 + n) div 12 and day d whenever that date is
\* a date of the calendar, also when day d is not a day of an intermediate
\* date such as the same month of the target year.
C13_MonthsAdvance ==
    LET target == MonthsTarget(call.due, call.repeat.n)
    IN  (OneMonthsAdvance /\ ValidYmd(target[1], target[2], target[3])) =>
            /\ ret.tag = "Some"
            /\ ret.advances = 1
            /\ Ymd(ret.v) = target

\* What holds of C13: the advance yields the target when the anchor's month
\* and day are also a date of the target year.
MonthsWhenYearValid ==
    LET target == MonthsTarget(call.due, call.repeat.n)
    IN  (/\ OneMonthsAdvance
         /\ ValidYmd(target[1], target[2], target[3])
         /\ ValidYmd(target[1], call.due[2], call.due[3])) =>
            /\ ret.tag = "Some"
            /\ ret.advances = 1
            /\ Ymd(ret.v) = target

\* One Months advance panics when the target is not a date, and when the
\* anchor's month and day are not a date of the target year.
MonthsPanics ==
    LET target == MonthsTarget(call.due, call.repeat.n)
    IN  OneMonthsAdvance =>
            (ret.tag = "Panic" <=>
                \/ ~ValidYmd(target[1], target[2], target[3])
                \/ ~ValidYmd(target[1], call.due[2], call.due[3]))

----------------------------------------------------------------------------
(* next_due_date called twice on one anchor and one Days rule, the second   *)
(* time with the completion one interval later.                              *)

CatchUpInit ==
    /\ MainIdle
    /\ call \in [fn : {"catch_up"}, due : NddDates, completed : NddDates,
                 repeat : {Days(n) : n \in Counts}]
    /\ ret = Pending

\* The completion of the second call: the first one delayed by one interval.
CatchUpDelayed ==
    from_ymd(call.completed[1], call.completed[2], call.completed[3]) + call.repeat.n

CatchUpFirst ==
    /\ call.fn = "catch_up"
    /\ ret = Pending
    /\ ret' = [tag |-> "First",
               first |-> next_due_date(from_ymd(call.due[1], call.due[2], call.due[3]),
                                       from_ymd(call.completed[1], call.completed[2],
                                                call.completed[3]),
                                       call.repeat)]
    /\ UNCHANGED <<file, schedule, matches, exit, origin, call>>

CatchUpSecond ==
    /\ call.fn = "catch_up"
    /\ ret.tag = "First"
    /\ ret' = [tag |-> "Both",
               first |-> ret.first,
               second |-> next_due_date(from_ymd(call.due[1], call.due[2], call.due[3]),
                                        CatchUpDelayed,
                                        call.repeat)]
    /\ UNCHANGED <<file, schedule, matches, exit, origin, call>>

CatchUpNext == CatchUpFirst \/ CatchUpSecond

SpecCatchUp == CatchUpInit /\ [][CatchUpNext]_vars

\* Both calls have ended.
CatchUpEnded == call.fn = "catch_up" /\ ret.tag = "Both"

\* C12: for Days(n) with n >= 1, any anchor a and any completion c >= a,
\* next_due_date(a, c + n days, Days(n)) is next_due_date(a, c, Days(n)) + n
\* days: a completion one interval later moves the result by exactly one
\* interval (one more advance), never two.
C12_CatchUpShiftsOneInterval ==
    (CatchUpEnded /\ call.repeat.n >= 1 /\ ~Before(call.completed, call.due)) =>
        /\ ret.first.tag = "Some"
        /\ ret.second.tag = "Some"
        /\ ret.second.v = ret.first.v + call.repeat.n
        /\ ret.second.advances = ret.first.advances + 1

\* Anchor 2016-01-27 completed on 2016-01-30 under Days(3): due 2016-02-02
\* after two advances, and 2016-02-05 after three when completed on 2016-02-02.
C12_Witness ==
    /\ CatchUpEnded
    /\ call.due = <<TestYear, 1, 27>>
    /\ call.completed = <<TestYear, 1, 30>>
    /\ call.repeat = Days(3)
    /\ ret.first = [tag |-> "Some", v |-> from_ymd(TestYear, 2, 2), advances |-> 2]
    /\ ret.second = [tag |-> "Some", v |-> from_ymd(TestYear, 2, 5), advances |-> 3]

----------------------------------------------------------------------------
(* repeat_from_string exercised on every short string. *)

\* The longest string drawn, in characters.
MaxLen == 3

Chars == {"0", "1", "7", "d", "m", "y", "x", "D", "+", "-", "é"}

RECURSIVE StringsUpTo(_)
StringsUpTo(n) ==
    IF n = 0 THEN {<<>>}
    ELSE LET shorter == StringsUpTo(n - 1)
         IN  shorter \cup {Append(w, c) : w \in shorter, c \in Chars}

RfsStrings == StringsUpTo(MaxLen) \cup {NeverText, <<"n", "e", "v", "e", "r", "d">>}

RfsInit ==
    /\ MainIdle
    /\ call \in [fn : {"repeat_from_string"}, string : RfsStrings]
    /\ ret = Pending

RfsCall ==
    /\ call.fn = "repeat_from_string"
    /\ ret = Pending
    /\ ret' = repeat_from_string(call.string)
    /\ UNCHANGED <<file, schedule, matches, exit, origin, call>>

RfsNext == RfsCall

SpecRfs == RfsInit /\ [][RfsNext]_vars

RfsEnded == call.fn = "repeat_from_string" /\ ret # Pending

\* "never", or a decimal integer (which may carry a "+") followed by exactly
\* one of the unit letters d, m, y.
RfsWellFormed(string) ==
    \/ string = NeverText
    \/ /\ Len(string) >= 2
       /\ string[Len(string)] \in {"d", "m", "y"}
       /\ LET count == SubSeq(string, 1, Len(string) - 1)
              ds    == IF Head(count) = "+" THEN Tail(count) ELSE count
          IN  ds # <<>> /\ \A k \in 1..Len(ds) : ds[k] \in Digits

\* C9: repeat_from_string never panics, the empty string and one-character
\* strings included, and reports a typed error (PARSE_ERROR or UNIT_ERROR) for
\* every string that is neither "never" nor an integer followed by one unit letter.
C9_TypedErrorNoPanic ==
    RfsEnded =>
        /\ ret.tag \in {"Ok", "Err"}
        /\ ~RfsWellFormed(call.string) => (ret.tag = "Err" /\ ret.v \in {PARSE_ERROR, UNIT_ERROR})

\* What holds of C9 on the strings a split leaves whole.
RfsWhenNoPanic ==
    (RfsEnded /\ ret.tag # "Panic") =>
        /\ ret.tag \in {"Ok", "Err"}
        /\ RfsWellFormed(call.string) <=> ret.tag = "Ok"

\* The panics are those of the empty string and of a last character of two bytes.
RfsPanics ==
    RfsEnded =>
        (ret.tag = "Panic" <=>
            (call.string = <<>> \/ (call.string # <<>> /\ Width(call.string[Len(call.string)]) > 1)))

----------------------------------------------------------------------------
(* days_until_due exercised as tests::test_days_until_due does. *)

DudInit ==
    /\ MainIdle
    /\ call \in [fn : {"days_until_due"}, due : NddDates, today : NddDates]
    /\ ret = Pending

DudCall ==
    /\ call.fn = "days_until_due"
    /\ ret = Pending
    /\ ret' = Some(days_until_due(from_ymd(call.due[1], call.due[2], call.due[3]),
                                  from_ymd(call.today[1], call.today[2], call.today[3])))
    /\ UNCHANGED <<file, schedule, matches, exit, origin, call>>

DudNext == DudCall

SpecDud == DudInit /\ [][DudNext]_vars

DudEnded == call.fn = "days_until_due" /\ ret # Pending

\* Every date of the calendar in the years the inputs come from.
CalendarDates ==
    {t \in InputYears \X (1..12) \X (1..31) : ValidYmd(t[1], t[2], t[3])}

\* The calendar days after a, up to and with b.
DaysFromTo(a, b) ==
    Cardinality({t \in CalendarDates : Before(a, t) /\ (Before(t, b) \/ t = b)})

\* C10: days_until_due(due, today) is the signed number of calendar days from
\* today to due: 0 when they are equal, positive when due is after today,
\* negative when it is before, the opposite of days_until_due(today, due),
\* with leap days counted.
C10_SignedDayCount ==
    DudEnded =>
        /\ ret.v = (IF Before(call.due, call.today)
                    THEN 0 - DaysFromTo(call.due, call.today)
                    ELSE DaysFromTo(call.today, call.due))
        /\ (ret.v = 0) <=> (call.due = call.today)
        /\ (ret.v > 0) <=> Before(call.today, call.due)
        /\ (ret.v < 0) <=> Before(call.due, call.today)
        /\ ret.v = 0 - days_until_due(from_ymd(call.today[1], call.today[2], call.today[3]),
                                      from_ymd(call.due[1], call.due[2], call.due[3]))

\* A span that holds 29 February 2016 is counted as 366 days, and its reverse as -366.
C10_Witness ==
    /\ DudEnded
    /\ call.today = <<TestYear, 1, 1>>
    /\ call.due = <<TestYear + 1, 1, 1>>
    /\ ret.v = 366

----------------------------------------------------------------------------
(* VersionedTask::upversioned exercised on legacy and current records. *)

\* The text of a date that does not exist, as a file may hold it.
BadDateText == <<TestYear + 1, 2, 30>>

\* The frequencies drawn: the counts, and one whose due date is past chrono's last date.
UpFrequencies == Counts \cup {200000000}

UpRecords ==
    {Version010(n, f, lc) :
        n \in Names, f \in UpFrequencies,
        lc \in {NoneV} \cup {Some(d) : d \in NddDates \cup {BadDateText}}}
    \cup {Current(Task(n, NoneV, d, r, FALSE)) :
            n \in Names, d \in {<<TestYear, 2, 29>>}, r \in {Never, Days(1)}}

UpInit ==
    /\ MainIdle
    /\ call \in [fn : {"upversioned"}, self : UpRecords]
    /\ ret = Pending

UpCall ==
    /\ call.fn = "upversioned"
    /\ ret = Pending
    /\ \E today \in NddDates :
          ret' = upversioned(call.self, from_ymd(today[1], today[2], today[3]))
    /\ UNCHANGED <<file, schedule, matches, exit, origin, call>>

UpNext == UpCall

SpecUp == UpInit /\ [][UpNext]_vars

UpEnded == call.fn = "upversioned" /\ ret # Pending

\* A v0.1.0 record whose last_completed is present and a date, and whose
\* last_completed + frequency_days is a date of the calendar.
UpLegacyCompleted ==
    /\ call.fn = "upversioned"
    /\ call.self.version = "Version010"
    /\ call.self.last_completed.tag = "Some"
    /\ as_naive(call.self.last_completed.v).tag = "Some"
    /\ as_naive(call.self.last_completed.v).v + call.self.frequency_days <= MAX_DATE

\* The task C8 describes.
UpExpected ==
    Task(call.self.name,
         Some(call.self.last_completed.v),
         DateFrom(as_naive(call.self.last_completed.v).v + call.self.frequency_days),
         Days(call.self.frequency_days),
         FALSE)

\* C8: upgrading a v0.1.0 record whose last_completed is present yields a
\* task with the same name, date_completed = last_completed, date_due =
\* last_completed + frequency_days days, repeat = Days(frequency_days) and
\* at_least = false, for every frequency_days the record can hold.
C8_LegacyUpgrade ==
    (UpEnded /\ UpLegacyCompleted) => ret = Some(UpExpected)

\* What holds of C8 on the records with a positive frequency_days.
UpWhenPositive ==
    (UpEnded /\ UpLegacyCompleted /\ call.self.frequency_days >= 1) => ret = Some(UpExpected)

\* A frequency_days of 0 is the one case of C8 that fails: the call does not return.
UpZeroDiverges ==
    (UpEnded /\ UpLegacyCompleted /\ call.self.frequency_days = 0) => ret.tag = "Diverge"

=============================================================================
